---- MODULE Spec2Model ----
(***************************************************************************)
(* Model of the code cells of the d2l notebooks                            *)
(*   chapter_convolutional-modern/batch-norm.ipynb  (batch_norm, BatchNorm) *)
(*   chapter_convolutional-modern/vgg.ipynb         (vgg_block, vgg)        *)
(*                                                                         *)
(* Arithmetic is exact: a number is a reduced fraction [n, d] with d > 0,  *)
(* and a value that went through a division by nd.sqrt is kept in the     *)
(* closed form  off + num / sqrt(rad)  with off, num, rad fractions.       *)
(* Tensors are records [shape, data]; data maps index tuples to numbers.   *)
(***************************************************************************)
EXTENDS Integers, Sequences, FiniteSets, TLC

(* ------------------------------ bounds -------------------------------- *)
\* largest first (batch) dimension of an input minibatch
MaxBatch == 2
\* number of BatchNorm.forward calls explored
MaxCalls == 2
\* BatchNorm(num_features, num_dims): the layers explored have this many
\* features (outputs of a dense layer, channels of a convolution)
NumFeatures == 2
\* height and width of the rank-4 inputs explored
Spatial == {<<1, 1>>, <<2, 1>>, <<1, 2>>}
\* the values of the nonzero entries of the inputs explored
Vals == {2}

(* ---------------------------- fractions ------------------------------- *)
Abs(x) == IF x < 0 THEN -x ELSE x

RECURSIVE GCD(_, _)
GCD(a, b) == IF b = 0 THEN a ELSE GCD(b, a % b)

Rat(n, d) ==
    LET g == GCD(Abs(n), d)
    IN  [n |-> n \div g, d |-> d \div g]

Zero == [n |-> 0, d |-> 1]
One == [n |-> 1, d |-> 1]

RatAdd(a, b) ==
    LET g == GCD(a.d, b.d)
        l == (a.d \div g) * b.d
    IN  Rat(a.n * (l \div a.d) + b.n * (l \div b.d), l)

RatNeg(a) == [n |-> -a.n, d |-> a.d]
RatSub(a, b) == RatAdd(a, RatNeg(b))
RatMul(a, b) ==
    LET g1 == GCD(Abs(a.n), b.d)
        g2 == GCD(Abs(b.n), a.d)
    IN  Rat((a.n \div g1) * (b.n \div g2), (a.d \div g2) * (b.d \div g1))
RatDivInt(a, k) == RatMul(a, [n |-> 1, d |-> k])
RatLess(a, b) == a.n * b.d < b.n * a.d
RatLeq(a, b) == a.n * b.d <= b.n * a.d

RECURSIVE RatSum(_, _)
\* the sum of f[i] over the finite set S
RatSum(f, S) ==
    IF S = {} THEN Zero
    ELSE LET i == CHOOSE j \in S : TRUE
         IN  RatAdd(f[i], RatSum(f, S \ {i}))

(* ----------------------------- tensors -------------------------------- *)
\* A tensor is [shape, data]: data lists the entries in row-major order.
\* f as a table of its values (f itself, computed once for all arguments)
Table(f) == f @@ <<>>

RECURSIVE SeqProd(_)
SeqProd(s) == IF s = <<>> THEN 1 ELSE Head(s) * SeqProd(Tail(s))

Size(shape) == SeqProd(shape)

\* the number of entries one step along axis j (1-based) skips
Stride(shape, j) == SeqProd(SubSeq(shape, j + 1, Len(shape)))

\* coordinate j (0-based value) of the entry at row-major position k
Coord(shape, k, j) == ((k - 1) \div Stride(shape, j)) % shape[j]

Tensor(shape, f(_)) ==
    [shape |-> shape, data |-> Table([k \in 1..Size(shape) |-> f(k)])]

\* numpy broadcasting: shapes are aligned on the right, a dimension of 1
\* stretches
BroadcastShape(s1, s2) ==
    LET r == IF Len(s1) > Len(s2) THEN Len(s1) ELSE Len(s2)
        dim(s, k) == IF k + Len(s) - r >= 1 THEN s[k + Len(s) - r] ELSE 1
    IN  [k \in 1..r |-> IF dim(s1, k) = 1 THEN dim(s2, k) ELSE dim(s1, k)]

\* shape of gamma, beta, moving_mean and moving_var
ParamShape(nd_) == IF nd_ = 2 THEN <<1, NumFeatures>>
                   ELSE <<1, NumFeatures, 1, 1>>

\* shapes of the minibatches explored
InputShapes(nd_) ==
    IF nd_ = 2 THEN {<<m, NumFeatures>> : m \in 1..MaxBatch}
    ELSE {<<m, NumFeatures, s[1], s[2]>> : m \in 1..MaxBatch, s \in Spatial}

\* every shape a tensor of the model has
AllShapes ==
    InputShapes(2) \cup InputShapes(4)
        \cup {ParamShape(2), ParamShape(4), <<NumFeatures>>}

RECURSIVE Offset(_, _, _, _)
\* row-major offset in a tensor of shape sa of the entry that position k of
\* a broadcast result of shape sr reads, summed over the axes j..Len(sa)
Offset(sa, sr, k, j) ==
    IF j > Len(sa) THEN 0
    ELSE (IF sa[j] = 1 THEN 0
          ELSE Coord(sr, k, j + Len(sr) - Len(sa)) * Stride(sa, j))
         + Offset(sa, sr, k, j + 1)

\* Offset(sa, sr, k, 1) for all shapes of the model, as a table
OffsetTab ==
    Table([pr \in {q \in AllShapes \X AllShapes : Len(q[1]) <= Len(q[2])} |->
              Table([k \in 1..Size(pr[2]) |-> Offset(pr[1], pr[2], k, 1)])])

\* Offset(sa, sr, k, 1) for every position k of the result
Offsets(sa, sr) ==
    IF <<sa, sr>> \in DOMAIN OffsetTab THEN OffsetTab[<<sa, sr>>]
    ELSE Table([k \in 1..Size(sr) |-> Offset(sa, sr, k, 1)])

\* whether the framework accepts the two shapes in one elementwise
\* operation: aligned on the right, the dimensions are equal or one is 1
Broadcastable(s1, s2) ==
    \A j \in 1..(IF Len(s1) < Len(s2) THEN Len(s1) ELSE Len(s2)) :
        \/ s1[Len(s1) + 1 - j] = s2[Len(s2) + 1 - j]
        \/ s1[Len(s1) + 1 - j] = 1
        \/ s2[Len(s2) + 1 - j] = 1

\* elementwise binary operation with broadcasting
Zip(A, B, op(_, _)) ==
    LET sr == BroadcastShape(A.shape, B.shape)
        oa == Offsets(A.shape, sr)
        ob == Offsets(B.shape, sr)
    IN  Tensor(sr, LAMBDA k : op(A.data[1 + oa[k]], B.data[1 + ob[k]]))

Map(A, op(_)) == Tensor(A.shape, LAMBDA k : op(A.data[k]))

\* X.mean(axis=axes, keepdims=keepdims); axes are 0-based as in the code
Mean(X, axes, keepdims) ==
    LET r == Len(X.shape)
        full == [j \in 1..r |-> IF (j - 1) \in axes THEN 1 ELSE X.shape[j]]
        cnt == Size(X.shape) \div Size(full)
        off == Offsets(full, X.shape)
        cell(q) == {k \in 1..Size(X.shape) : 1 + off[k] = q}
        avg(q) == RatDivInt(RatSum(X.data, cell(q)), cnt)
        squeezed == SelectSeq(
            [j \in 1..r |-> IF (j - 1) \in axes THEN 0 ELSE X.shape[j]],
            LAMBDA d : d # 0)
    IN  [shape |-> IF keepdims THEN full ELSE squeezed,
         data |-> Table([q \in 1..Size(full) |-> avg(q)])]

(* ------------------- values divided by a square root ------------------ *)
\* a / sqrt(r), kept in closed form
DivSqrt(a, r) == [off |-> Zero, num |-> a, rad |-> r]
\* g * s for a fraction g
SurdScale(g, s) == [off |-> RatMul(g, s.off), num |-> RatMul(g, s.num), rad |-> s.rad]
\* s + b for a fraction b
SurdShift(s, b) == [off |-> RatAdd(s.off, b), num |-> s.num, rad |-> s.rad]

(* --------------------------- batch_norm ------------------------------- *)
\* a wrong eps: nothing added to the variance
eps_zero == Zero

\* eps=1e-5 and momentum=0.9, the arguments BatchNorm.forward passes
eps == Rat(1, 100000)
momentum == Rat(9, 10)

\* prediction branch: X_hat = (X - moving_mean) / nd.sqrt(moving_var + eps)
PredictXHat(X_, mm, mv, e) ==
    Zip(Zip(X_, mm, RatSub), Map(mv, LAMBDA v : RatAdd(v, e)), DivSqrt)

\* a wrong choice of axes: the batch axis alone, whatever the rank (one
\* statistic per pixel)
ReduceAxes_per_pixel(X_) == {0}

\* the axes the training branch reduces over, by the rank of X
ReduceAxes(X_) == IF Len(X_.shape) = 2 THEN {0} ELSE {0, 2, 3}

\* mean = X.mean(axis=0)   or   X.mean(axis=(0, 2, 3), keepdims=True)
BatchMean(X_) == Mean(X_, ReduceAxes(X_), Len(X_.shape) # 2)

\* var = ((X - mean) ** 2).mean(...) over the same axes
BatchVar(X_, mean) ==
    Mean(Map(Zip(X_, mean, RatSub), LAMBDA v : RatMul(v, v)),
         ReduceAxes(X_), Len(X_.shape) # 2)

\* a wrong training branch: the mean is not subtracted
TrainXHat_no_centering(X_, mean, var, e) ==
    Zip(X_, Map(var, LAMBDA v : RatAdd(v, e)), DivSqrt)

\* training branch: X_hat = (X - mean) / nd.sqrt(var + eps)
TrainXHat(X_, mean, var, e) ==
    Zip(Zip(X_, mean, RatSub), Map(var, LAMBDA v : RatAdd(v, e)), DivSqrt)

\* a wrong update: the weights of the old and the new value exchanged
MovingUpdate_swapped(m, moving, stat) ==
    Zip(Map(moving, LAMBDA v : RatMul(RatSub(One, m), v)),
        Map(stat, LAMBDA v : RatMul(m, v)),
        RatAdd)

\* momentum * moving + (1.0 - momentum) * stat
MovingUpdate(m, moving, stat) ==
    Zip(Map(moving, LAMBDA v : RatMul(m, v)),
        Map(stat, LAMBDA v : RatMul(RatSub(One, m), v)),
        RatAdd)

\* Y = gamma * X_hat + beta
ScaleShift(gamma_, X_hat, beta_) ==
    Zip(Zip(gamma_, X_hat, SurdScale), beta_, SurdShift)

\* the branch of batch_norm taken when autograd.is_training() is false
batch_norm_predict(X_, gamma_, beta_, mm, mv, e) ==
    [Y |-> ScaleShift(gamma_, PredictXHat(X_, mm, mv, e), beta_),
     moving_mean |-> mm,
     moving_var |-> mv]

\* the branch of batch_norm taken when autograd.is_training() is true
batch_norm_train(X_, gamma_, beta_, mm, mv, e, m) ==
    LET mean == BatchMean(X_)
        var == BatchVar(X_, mean)
    IN  [Y |-> ScaleShift(gamma_, TrainXHat(X_, mean, var, e), beta_),
         moving_mean |-> MovingUpdate(m, mm, mean),
         moving_var |-> MovingUpdate(m, mv, var)]

\* a wrong test of the mode: the two branches exchanged
batch_norm_inverted(X_, gamma_, beta_, mm, mv, e, m, is_training) ==
    IF is_training
    THEN batch_norm_predict(X_, gamma_, beta_, mm, mv, e)
    ELSE batch_norm_train(X_, gamma_, beta_, mm, mv, e, m)

\* a wrong prediction branch: it normalises as it should, and then updates
\* the moving statistics with the minibatch's as the training branch does
batch_norm_always_updates(X_, gamma_, beta_, mm, mv, e, m, is_training) ==
    IF ~is_training
    THEN [Y |-> batch_norm_predict(X_, gamma_, beta_, mm, mv, e).Y,
          moving_mean |-> batch_norm_train(X_, gamma_, beta_, mm, mv, e, m).moving_mean,
          moving_var |-> batch_norm_train(X_, gamma_, beta_, mm, mv, e, m).moving_var]
    ELSE batch_norm_train(X_, gamma_, beta_, mm, mv, e, m)

\* batch_norm(X, gamma, beta, moving_mean, moving_var, eps, momentum), with
\* the value of autograd.is_training() as is_training
batch_norm(X_, gamma_, beta_, mm, mv, e, m, is_training) ==
    IF ~is_training
    THEN batch_norm_predict(X_, gamma_, beta_, mm, mv, e)
    ELSE batch_norm_train(X_, gamma_, beta_, mm, mv, e, m)

\* the shape of mean and var in the training branch, for X of rank 2 or 4
StatShape(shape) ==
    IF Len(shape) = 2 THEN <<shape[2]>> ELSE <<1, shape[2], 1, 1>>

\* the first framework operation of Y = gamma * X_hat + beta that rejects
\* its operands raises
ScaleShiftRaises(gshape, xshape, bshape) ==
    IF /\ Broadcastable(gshape, xshape)
       /\ Broadcastable(BroadcastShape(gshape, xshape), bshape)
    THEN "none" ELSE "MXNetError"

\* a wrong training branch: the rank of X is not asserted, and X.mean over
\* the axes (0, 2, 3) fails in the framework for a rank below 4
batch_norm_raises_no_assert(xshape, gshape, bshape, mmshape, mvshape, is_training) ==
    IF ~is_training THEN
        IF /\ Broadcastable(xshape, mmshape)
           /\ Broadcastable(BroadcastShape(xshape, mmshape), mvshape)
        THEN ScaleShiftRaises(gshape, BroadcastShape(BroadcastShape(xshape, mmshape),
                                                     mvshape), bshape)
        ELSE "MXNetError"
    ELSE IF Len(xshape) \notin {2, 4} THEN "MXNetError"
    ELSE IF /\ Broadcastable(mmshape, StatShape(xshape))
            /\ Broadcastable(mvshape, StatShape(xshape))
         THEN ScaleShiftRaises(gshape, xshape, bshape)
         ELSE "MXNetError"

\* the error a batch_norm call raises, "none" when it returns: the shapes
\* of its arguments and the mode decide it. "AssertionError" is raised by
\* the function's own assert, "MXNetError" by a framework operation whose
\* operands cannot be broadcast together.
batch_norm_raises(xshape, gshape, bshape, mmshape, mvshape, is_training) ==
    IF ~is_training THEN
        IF /\ Broadcastable(xshape, mmshape)
           /\ Broadcastable(BroadcastShape(xshape, mmshape), mvshape)
        THEN ScaleShiftRaises(gshape, BroadcastShape(BroadcastShape(xshape, mmshape),
                                                     mvshape), bshape)
        ELSE "MXNetError"
    ELSE IF Len(xshape) \notin {2, 4} THEN "AssertionError"
    ELSE IF /\ Broadcastable(mmshape, StatShape(xshape))
            /\ Broadcastable(mvshape, StatShape(xshape))
         THEN ScaleShiftRaises(gshape, xshape, bshape)
         ELSE "MXNetError"

(* ------------------------- the BatchNorm layer ------------------------ *)
Contexts == {"cpu", "gpu"}
\* the changes of (gamma, beta) per feature that one trainer step may make
Grads == {[c \in 1..NumFeatures |-> IF c % 2 = 1 THEN <<-1, 1>> ELSE <<2, c>>]}

VARIABLES
    num_dims,      \* the layer's num_dims: 2 (dense) or 4 (convolution)
    hw,            \* height and width of the layer's inputs (num_dims = 4)
    device,        \* the context the network's inputs are on
    gamma,         \* self.gamma
    beta,          \* self.beta
    moving_mean,   \* self.moving_mean
    moving_var,    \* self.moving_var
    ctx,           \* the context self.moving_mean and self.moving_var are on
    X,             \* the argument of the last forward call
    Y,             \* the result of the last forward call
    training,      \* autograd.is_training() during the last forward call
    calls,         \* number of forward calls made
    steps,         \* number of trainer steps made
    pc             \* "idle", or "backward" between a training-mode forward
                   \* call and the trainer step of the same iteration

bnvars == <<num_dims, hw, device, gamma, beta, moving_mean, moving_var, ctx, X, Y,
            training, calls, steps, pc>>

Const(shape, v) == Tensor(shape, LAMBDA k : v)


\* the minibatches explored for a layer fed with rank nd_ inputs of height
\* and width hw_: any batch size, all entries 0 but for at most one entry
\* of the first example
InputsOf(nd_, hw_) ==
    UNION {{Const(s, Zero)} \cup
           {Tensor(s, LAMBDA k : IF k = p THEN Rat(v, 1) ELSE Zero) :
                p \in 1..(Size(s) \div s[1]), v \in Vals} :
           s \in {t \in InputShapes(nd_) : nd_ = 4 => <<t[3], t[4]>> = hw_}}

\* InputsOf for every layer of the model, as a table
InputsTab ==
    Table([l \in {<<2, <<>>>>} \cup {<<4, h>> : h \in Spatial} |->
              InputsOf(l[1], l[2])])
Inputs(nd_, hw_) == InputsTab[<<nd_, hw_>>]

\* BatchNorm.__init__ followed by net.initialize()
BNInit ==
    /\ num_dims \in {2, 4}
    /\ hw \in IF num_dims = 2 THEN {<<>>} ELSE Spatial
    /\ device \in Contexts
    /\ gamma = Const(ParamShape(num_dims), One)
    /\ beta = Const(ParamShape(num_dims), Zero)
    /\ moving_mean = Const(ParamShape(num_dims), Zero)
    /\ moving_var = Const(ParamShape(num_dims), Zero)
    /\ ctx = "cpu"
    /\ X = <<>>
    /\ Y = <<>>
    /\ training = FALSE
    /\ calls = 0
    /\ steps = 0
    /\ pc = "idle"

\* a wrong forward: the moving statistics batch_norm returns are not stored
\* back in the layer
Forward_discards_update(x, xctx, is_training) ==
    /\ pc = "idle"
    /\ calls < MaxCalls
    /\ \E r \in {batch_norm(x, gamma, beta, moving_mean, moving_var,
                            eps, momentum, is_training)} :
           /\ Y' = r.Y
           /\ moving_mean' = moving_mean
           /\ moving_var' = moving_var
    /\ ctx' = IF ctx # xctx THEN xctx ELSE ctx
    /\ X' = x
    /\ training' = is_training
    /\ calls' = calls + 1
    /\ pc' = IF is_training THEN "backward" ELSE "idle"
    /\ UNCHANGED <<num_dims, hw, device, gamma, beta, steps>>

\* BatchNorm.forward(X) with X on context xctx
Forward(x, xctx, is_training) ==
    /\ pc = "idle"
    /\ calls < MaxCalls
    /\ \E r \in {batch_norm(x, gamma, beta, moving_mean, moving_var,
                            eps, momentum, is_training)} :
           /\ Y' = r.Y
           /\ moving_mean' = r.moving_mean
           /\ moving_var' = r.moving_var
    /\ ctx' = IF ctx # xctx THEN xctx ELSE ctx
    /\ X' = x
    /\ training' = is_training
    /\ calls' = calls + 1
    /\ pc' = IF is_training THEN "backward" ELSE "idle"
    /\ UNCHANGED <<num_dims, hw, device, gamma, beta, steps>>

\* l.backward() and trainer.step(batch_size) of the training loop, which
\* follow each training-mode forward pass: gamma and beta move by g, the
\* moving statistics are not parameters and stay
TrainerStep(g) ==
    /\ pc = "backward"
    /\ gamma' = Tensor(gamma.shape, LAMBDA k : RatAdd(gamma.data[k], Rat(g[k][1], 1)))
    /\ beta' = Tensor(beta.shape, LAMBDA k : RatAdd(beta.data[k], Rat(g[k][2], 1)))
    /\ steps' = steps + 1
    /\ pc' = "idle"
    /\ UNCHANGED <<num_dims, hw, device, moving_mean, moving_var, ctx, X, Y,
                   training, calls>>

DoForward ==
    \E x \in Inputs(num_dims, hw), is_training \in BOOLEAN :
        Forward(x, device, is_training)

DoTrainerStep == \E g \in Grads : TrainerStep(g)

(* ------------------- the forward calls in call order ------------------ *)
VARIABLE batch_stats   \* the batch mean and batch variance (one entry per
                       \* feature) of the training-mode forward calls made,
                       \* in call order

seqvars == <<batch_stats>>

\* the calls are not recorded
SeqOff == batch_stats = <<>>

\* a forward call, run from its first line to its return before the next
\* one starts; the statistics of a training-mode call are recorded
ForwardInOrder ==
    /\ DoForward
    /\ IF training'
       THEN \E mean \in {BatchMean(X')} :
               batch_stats' = Append(batch_stats,
                                     [mean |-> mean.data,
                                      var |-> BatchVar(X', mean).data])
       ELSE batch_stats' = batch_stats

(* --------------------- batch_norm called directly --------------------- *)
VARIABLE raised    \* the error the batch_norm call raised, or "none"

callvars == <<raised>>

\* shapes of the arguments X explored: ranks 1 to 4, with the layer's
\* number of features or one more
CallShapes ==
    LET feats == {NumFeatures, NumFeatures + 1}
    IN  {<<f>> : f \in feats}
        \cup {<<m, f>> : m \in 1..MaxBatch, f \in feats}
        \cup {<<m, f, w>> : m \in 1..MaxBatch, f \in feats, w \in 1..2}
        \cup {<<m, f, s[1], s[2]>> : m \in 1..MaxBatch, f \in feats, s \in Spatial}

\* the arguments X explored: all entries 0, or the entries 0, 1, 2, 0, ...
CallInputs ==
    UNION {{Const(s, Zero), Tensor(s, LAMBDA k : Rat((k - 1) % 3, 1))} :
           s \in CallShapes}

\* no batch_norm call is being made
CallOff == raised = "none"

\* before batch_norm(X, gamma, beta, moving_mean, moving_var, eps, momentum)
\* with the parameters of a fresh layer
CallInit ==
    /\ num_dims \in {2, 4}
    /\ hw = <<>>
    /\ device = "cpu"
    /\ gamma = Const(ParamShape(num_dims), One)
    /\ beta = Const(ParamShape(num_dims), Zero)
    /\ moving_mean = Const(ParamShape(num_dims), Zero)
    /\ moving_var = Const(ParamShape(num_dims), Zero)
    /\ ctx = "cpu"
    /\ X \in CallInputs
    /\ Y = <<>>
    /\ training \in BOOLEAN
    /\ calls = 0
    /\ steps = 0
    /\ pc = "call"
    /\ raised = "none"

\* the call raises
CallRaises ==
    /\ pc = "call"
    /\ batch_norm_raises(X.shape, gamma.shape, beta.shape, moving_mean.shape,
                         moving_var.shape, training) # "none"
    /\ raised' = batch_norm_raises(X.shape, gamma.shape, beta.shape,
                                   moving_mean.shape, moving_var.shape, training)
    /\ pc' = "raised"
    /\ UNCHANGED <<num_dims, hw, device, gamma, beta, moving_mean, moving_var,
                   ctx, X, Y, training, calls, steps>>

\* the call returns Y, moving_mean, moving_var
CallReturns ==
    /\ pc = "call"
    /\ batch_norm_raises(X.shape, gamma.shape, beta.shape, moving_mean.shape,
                         moving_var.shape, training) = "none"
    /\ \E r \in {batch_norm(X, gamma, beta, moving_mean, moving_var,
                            eps, momentum, training)} :
           /\ Y' = r.Y
           /\ moving_mean' = r.moving_mean
           /\ moving_var' = r.moving_var
    /\ pc' = "returned"
    /\ UNCHANGED <<num_dims, hw, device, gamma, beta, ctx, X, training, calls,
                   steps, raised>>

(* ------------------------------- VGG ---------------------------------- *)
\* most (num_convs, num_channels) pairs in a conv_arch explored
MaxBlocks == 2
\* largest num_convs explored
MaxConvs == 2
\* largest height and width of the inputs explored
MaxSide == 4
\* the num_channels explored
ChannelVals == {2, 3}

\* the layers of mxnet.gluon.nn the notebook builds, with their defaults
Conv2D(channels, kernel_size, strides, padding, activation) ==
    [type |-> "Conv2D", channels |-> channels, kernel_size |-> kernel_size,
     strides |-> strides, padding |-> padding, activation |-> activation]
MaxPool2D(pool_size, strides) ==
    [type |-> "MaxPool2D", pool_size |-> pool_size, strides |-> strides,
     padding |-> 0]
Dense(units, activation) ==
    [type |-> "Dense", units |-> units, activation |-> activation]
Dropout(rate) == [type |-> "Dropout", rate |-> rate]
GlobalAvgPool2D == [type |-> "GlobalAvgPool2D"]
Flatten == [type |-> "Flatten"]
Sequential(children) == [type |-> "Sequential", children |-> children]

\* wrong blocks: one convolution too many; convolutions without padding; the
\* pooling layer before the convolutions
vgg_block_extra_conv(num_convs, num_channels) ==
    Sequential([k \in 1..(num_convs + 1) |-> Conv2D(num_channels, 3, 1, 1, "relu")]
               \o <<MaxPool2D(2, 2)>>)
vgg_block_no_padding(num_convs, num_channels) ==
    Sequential([k \in 1..num_convs |-> Conv2D(num_channels, 3, 1, 0, "relu")]
               \o <<MaxPool2D(2, 2)>>)
vgg_block_pool_first(num_convs, num_channels) ==
    Sequential(<<MaxPool2D(2, 2)>>
               \o [k \in 1..num_convs |-> Conv2D(num_channels, 3, 1, 1, "relu")])

\* vgg_block(num_convs, num_channels): range(num_convs) is empty for
\* num_convs <= 0
vgg_block(num_convs, num_channels) ==
    Sequential([k \in 1..num_convs |-> Conv2D(num_channels, 3, 1, 1, "relu")]
               \o <<MaxPool2D(2, 2)>>)

\* a wrong fully connected part: the second dropout layer left out
FullyConnected_one_dropout ==
    <<Dense(4096, "relu"), Dropout(Rat(1, 2)),
      Dense(4096, "relu"), Dense(10, "none")>>

\* the fully connected layer part of vgg
FullyConnected ==
    <<Dense(4096, "relu"), Dropout(Rat(1, 2)),
      Dense(4096, "relu"), Dropout(Rat(1, 2)),
      Dense(10, "none")>>

\* conv_arch of the notebook (VGG-11) and the input of its shape cell
conv_arch_vgg11 == <<<<1, 64>>, <<1, 128>>, <<2, 256>>, <<2, 512>>, <<2, 512>>>>
X_vgg11 == <<1, 1, 224, 224>>

\* a wrong window count: rounded up instead of down
WindowOut_ceil(size, kernel, padding, strides) ==
    ((size + 2 * padding - kernel + strides - 1) \div strides) + 1

\* output size of a convolution or pooling window along one axis
WindowOut(size, kernel, padding, strides) ==
    ((size + 2 * padding - kernel) \div strides) + 1

RECURSIVE OutShape(_, _)
\* the shape of layer(X) for X of the given shape; <<>> when the framework
\* raises an error (a window larger than the padded input)
OutShape(layer, shape) ==
    IF shape = <<>> THEN <<>>
    ELSE IF layer.type = "Conv2D" THEN
        IF \/ shape[3] + 2 * layer.padding < layer.kernel_size
           \/ shape[4] + 2 * layer.padding < layer.kernel_size
        THEN <<>>
        ELSE <<shape[1], layer.channels,
               WindowOut(shape[3], layer.kernel_size, layer.padding, layer.strides),
               WindowOut(shape[4], layer.kernel_size, layer.padding, layer.strides)>>
    ELSE IF layer.type = "MaxPool2D" THEN
        IF shape[3] < layer.pool_size \/ shape[4] < layer.pool_size
        THEN <<>>
        ELSE <<shape[1], shape[2],
               WindowOut(shape[3], layer.pool_size, layer.padding, layer.strides),
               WindowOut(shape[4], layer.pool_size, layer.padding, layer.strides)>>
    ELSE IF layer.type = "Dense" THEN <<shape[1], layer.units>>
    ELSE IF layer.type = "Dropout" THEN shape
    ELSE IF layer.type = "GlobalAvgPool2D" THEN <<shape[1], shape[2], 1, 1>>
    ELSE IF layer.type = "Flatten" THEN <<shape[1], SeqProd(Tail(shape))>>
    ELSE IF layer.children = <<>> THEN shape
    ELSE OutShape(Sequential(Tail(layer.children)),
                  OutShape(Head(layer.children), shape))

VARIABLES
    conv_arch,     \* the argument of vgg
    net,           \* the children of the nn.Sequential vgg builds
    vgg_i,         \* number of pairs of conv_arch the loop of vgg has taken
    vgg_pc,        \* "off", "blocks", "built", "done" or "error"
    X_in,          \* the shape of the input of the shape cell
    X_shape,       \* the shape of X in the loop of the shape cell
    printed        \* the output shapes the shape cell has printed

vggvars == <<conv_arch, net, vgg_i, vgg_pc, X_in, X_shape, printed>>

\* the conv_arch explored: the notebook's, and every short one
Pairs == (0..MaxConvs) \X ChannelVals
Archs ==
    {conv_arch_vgg11} \cup
    UNION {[1..n -> Pairs] : n \in 0..MaxBlocks}
InShapes ==
    {X_vgg11} \cup {<<1, 1, h, w>> : h \in 1..MaxSide, w \in 1..MaxSide}

\* the notebooks of the other chapter are not run
VggOff ==
    /\ conv_arch = <<>>
    /\ net = <<>>
    /\ vgg_i = 0
    /\ vgg_pc = "off"
    /\ X_in = <<>>
    /\ X_shape = <<>>
    /\ printed = <<>>

\* net = nn.Sequential() at the start of vgg(conv_arch)
VggInit ==
    /\ conv_arch \in Archs
    /\ net = <<>>
    /\ vgg_i = 0
    /\ vgg_pc = "blocks"
    /\ X_in \in InShapes
    /\ X_shape = X_in
    /\ printed = <<>>

\* one iteration of  for (num_convs, num_channels) in conv_arch
AddBlock ==
    /\ vgg_pc = "blocks"
    /\ vgg_i < Len(conv_arch)
    /\ net' = Append(net, vgg_block(conv_arch[vgg_i + 1][1],
                                    conv_arch[vgg_i + 1][2]))
    /\ vgg_i' = vgg_i + 1
    /\ UNCHANGED <<conv_arch, vgg_pc, X_in, X_shape, printed>>

\* net.add(nn.Dense(...), ...) after the loop, and return net
AddFullyConnected ==
    /\ vgg_pc = "blocks"
    /\ vgg_i = Len(conv_arch)
    /\ net' = net \o FullyConnected
    /\ vgg_pc' = "built"
    /\ UNCHANGED <<conv_arch, vgg_i, X_in, X_shape, printed>>

\* one iteration of  for blk in net: X = blk(X); print(..., X.shape)
ApplyChild ==
    /\ vgg_pc = "built"
    /\ Len(printed) < Len(net)
    /\ \E out \in {OutShape(net[Len(printed) + 1], X_shape)} :
          IF out = <<>>
          THEN /\ vgg_pc' = "error"
               /\ UNCHANGED <<X_shape, printed>>
          ELSE /\ X_shape' = out
               /\ printed' = Append(printed, out)
               /\ vgg_pc' = IF Len(printed) + 1 = Len(net) THEN "done" ELSE "built"
    /\ UNCHANGED <<conv_arch, net, vgg_i, X_in>>

VggNext == AddBlock \/ AddFullyConnected \/ ApplyChild

(* ------------------------------- NiN ---------------------------------- *)
\* largest kernel_size, strides and padding of the nin_block calls explored
MaxKernel == 3
MaxStrides == 2
MaxPadding == 1
\* the num_channels of the nin_block calls explored
NinChannelVals == {2, 10}
\* heights and widths of the inputs fed to the network: the notebook's 224,
\* the smallest the network accepts (67), and sizes it rejects
NinSides == {224, 96, 67, 66, 10}

\* a wrong block: the second pointwise convolution left out
nin_block_two_convs(num_channels, kernel_size, strides, padding) ==
    Sequential(<<Conv2D(num_channels, kernel_size, strides, padding, "relu"),
                 Conv2D(num_channels, 1, 1, 0, "relu")>>)

\* nin_block(num_channels, kernel_size, strides, padding); nn.Conv2D has
\* strides 1 and padding 0 by default
nin_block(num_channels, kernel_size, strides, padding) ==
    Sequential(<<Conv2D(num_channels, kernel_size, strides, padding, "relu"),
                 Conv2D(num_channels, 1, 1, 0, "relu"),
                 Conv2D(num_channels, 1, 1, 0, "relu")>>)

\* a wrong network: the last block keeps 384 channels and a dense layer maps
\* them to the 10 classes
NinLayers_dense_head ==
    <<nin_block(96, 11, 4, 0), MaxPool2D(3, 2),
      nin_block(256, 5, 1, 2), MaxPool2D(3, 2),
      nin_block(384, 3, 1, 1), MaxPool2D(3, 2),
      Dropout(Rat(1, 2)),
      nin_block(384, 3, 1, 1),
      GlobalAvgPool2D,
      Dense(10, "none")>>

\* the arguments of net.add in the NiN model cell
NinLayers ==
    <<nin_block(96, 11, 4, 0), MaxPool2D(3, 2),
      nin_block(256, 5, 1, 2), MaxPool2D(3, 2),
      nin_block(384, 3, 1, 1), MaxPool2D(3, 2),
      Dropout(Rat(1, 2)),
      nin_block(10, 3, 1, 1),
      GlobalAvgPool2D,
      Flatten>>

VARIABLES
    nin_pc,        \* "off"; "call", "called" for one nin_block call;
                   \* "net", "built" for the network; "done" or "error"
    nin_args,      \* <<num_channels, kernel_size, strides, padding>> of the
                   \* nin_block call, <<>> when the network is built
    nin_blk,       \* the block the nin_block call returned
    nin_net,       \* the children of the network
    nin_X_in,      \* the shape of the input
    nin_X,         \* the shape of X in the shape cell
    nin_printed    \* the output shapes obtained so far

ninvars == <<nin_pc, nin_args, nin_blk, nin_net, nin_X_in, nin_X, nin_printed>>

\* the nin_block calls explored: the notebook's four and every small one
NinArgs ==
    {<<96, 11, 4, 0>>, <<256, 5, 1, 2>>, <<384, 3, 1, 1>>, <<10, 3, 1, 1>>}
    \cup (NinChannelVals \X (1..MaxKernel) \X (1..MaxStrides) \X (0..MaxPadding))

\* inputs of a single block, and of the network
NinBlockInputs ==
    {<<b, 1, h, w>> : b \in 1..MaxBatch, h \in 1..MaxSide, w \in 1..MaxSide}
NinNetInputs ==
    {<<b, 1, h, w>> : b \in 1..MaxBatch, h \in NinSides, w \in NinSides}

\* nin.ipynb is not run
NinOff ==
    /\ nin_pc = "off"
    /\ nin_args = <<>>
    /\ nin_blk = <<>>
    /\ nin_net = <<>>
    /\ nin_X_in = <<>>
    /\ nin_X = <<>>
    /\ nin_printed = <<>>

\* before one nin_block call, or before the model cell
NinInit ==
    /\ nin_pc \in {"call", "net"}
    /\ nin_args \in IF nin_pc = "call" THEN NinArgs ELSE {<<>>}
    /\ nin_blk = <<>>
    /\ nin_net = <<>>
    /\ nin_X_in \in IF nin_pc = "call" THEN NinBlockInputs ELSE NinNetInputs
    /\ nin_X = nin_X_in
    /\ nin_printed = <<>>

\* blk = nin_block(num_channels, kernel_size, strides, padding)
CallNinBlock ==
    /\ nin_pc = "call"
    /\ nin_blk' = nin_block(nin_args[1], nin_args[2], nin_args[3], nin_args[4])
    /\ nin_pc' = "called"
    /\ UNCHANGED <<nin_args, nin_net, nin_X_in, nin_X, nin_printed>>

\* X = blk(X) for the block returned
ApplyNinBlock ==
    /\ nin_pc = "called"
    /\ \E out \in {OutShape(nin_blk, nin_X)} :
          IF out = <<>>
          THEN /\ nin_pc' = "error"
               /\ UNCHANGED <<nin_X, nin_printed>>
          ELSE /\ nin_X' = out
               /\ nin_printed' = Append(nin_printed, out)
               /\ nin_pc' = "done"
    /\ UNCHANGED <<nin_args, nin_blk, nin_net, nin_X_in>>

\* net = nn.Sequential(); net.add(...)
BuildNin ==
    /\ nin_pc = "net"
    /\ nin_net' = NinLayers
    /\ nin_pc' = "built"
    /\ UNCHANGED <<nin_args, nin_blk, nin_X_in, nin_X, nin_printed>>

\* one iteration of  for layer in net: X = layer(X); print(..., X.shape)
ApplyNinLayer ==
    /\ nin_pc = "built"
    /\ Len(nin_printed) < Len(nin_net)
    /\ \E out \in {OutShape(nin_net[Len(nin_printed) + 1], nin_X)} :
          IF out = <<>>
          THEN /\ nin_pc' = "error"
               /\ UNCHANGED <<nin_X, nin_printed>>
          ELSE /\ nin_X' = out
               /\ nin_printed' = Append(nin_printed, out)
               /\ nin_pc' = IF Len(nin_printed) + 1 = Len(nin_net)
                            THEN "done" ELSE "built"
    /\ UNCHANGED <<nin_args, nin_blk, nin_net, nin_X_in>>

(* --------------------------- specifications --------------------------- *)
vars == <<bnvars, seqvars, callvars, vggvars, ninvars>>

\* the BatchNorm layer of batch-norm.ipynb under forward calls and trainer
\* steps
Init == BNInit /\ SeqOff /\ CallOff /\ VggOff /\ NinOff

Next ==
    \/ DoForward /\ UNCHANGED <<seqvars, callvars, vggvars, ninvars>>
    \/ DoTrainerStep /\ UNCHANGED <<seqvars, callvars, vggvars, ninvars>>

Spec == Init /\ [][Next]_vars

\* the same layer, fed from the CPU, with its training-mode calls recorded
\* in call order
InitSeq == Init /\ device = "cpu"

NextSeq ==
    \/ ForwardInOrder /\ UNCHANGED <<callvars, vggvars, ninvars>>
    \/ DoTrainerStep /\ UNCHANGED <<seqvars, callvars, vggvars, ninvars>>

SpecSeq == InitSeq /\ [][NextSeq]_vars

\* one direct call of batch_norm, on an argument of any rank
InitCall == CallInit /\ SeqOff /\ VggOff /\ NinOff

NextCall ==
    \/ CallRaises /\ UNCHANGED <<seqvars, vggvars, ninvars>>
    \/ CallReturns /\ UNCHANGED <<seqvars, vggvars, ninvars>>

SpecCall == InitCall /\ [][NextCall]_vars

\* vgg.ipynb: vgg(conv_arch) and the shape cell
BNOff == BNInit /\ SeqOff /\ CallOff /\ num_dims = 2 /\ device = "cpu"

InitVgg == BNOff /\ VggInit /\ NinOff

NextVgg ==
    \/ AddBlock /\ UNCHANGED <<bnvars, seqvars, callvars, ninvars>>
    \/ AddFullyConnected /\ UNCHANGED <<bnvars, seqvars, callvars, ninvars>>
    \/ ApplyChild /\ UNCHANGED <<bnvars, seqvars, callvars, ninvars>>

SpecVgg == InitVgg /\ [][NextVgg]_vars

\* nin.ipynb: one nin_block call applied to an input, or the model cell and
\* the shape cell
InitNin == BNOff /\ VggOff /\ NinInit

NextNin ==
    \/ CallNinBlock /\ UNCHANGED <<bnvars, seqvars, callvars, vggvars>>
    \/ ApplyNinBlock /\ UNCHANGED <<bnvars, seqvars, callvars, vggvars>>
    \/ BuildNin /\ UNCHANGED <<bnvars, seqvars, callvars, vggvars>>
    \/ ApplyNinLayer /\ UNCHANGED <<bnvars, seqvars, callvars, vggvars>>

SpecNin == InitNin /\ [][NextNin]_vars

(* ===================== properties of batch_norm ======================= *)
\* the step is a BatchNorm.forward call
Forwarded == calls' = calls + 1

\* the feature (rank 2, axis 1) or channel (rank 4, axis 1) of the entry at
\* row-major position k of a tensor of the given shape
ChanOf(shape, k) ==
    IF Len(shape) = 2 THEN ((k - 1) % shape[2]) + 1
    ELSE (((k - 1) \div (shape[3] * shape[4])) % shape[2]) + 1

\* the positions of channel c
ChanSet(T, c) == {k \in 1..Len(T.data) : ChanOf(T.shape, k) = c}

\* the mean of the values f[k] over the positions k in cells
MeanOver(f, cells) == RatDivInt(RatSum(f, cells), Cardinality(cells))

\* the mean of the squared distances of the values f[k] from mu
SqDevOver(f, cells, mu) ==
    MeanOver(Table([k \in cells |->
                      RatMul(RatSub(f[k], mu), RatSub(f[k], mu))]), cells)

\* the mean and the (biased) variance of the entries of channel c
ChanMean(T, c) == MeanOver(T.data, ChanSet(T, c))
ChanVar(T, c) == SqDevOver(T.data, ChanSet(T, c), ChanMean(T, c))

\* g * (x - mu) / sqrt(v + 1e-5) + b
Standardised(g, x, mu, v, b) ==
    [off |-> b, num |-> RatMul(g, RatSub(x, mu)),
     rad |-> RatAdd(v, [n |-> 1, d |-> 100000])]

\* every entry of Yt at the given positions is the entry of T standardised
\* with mu and v, scaled by g and shifted by b
StandardisedAt(Yt, T, cells, g, mu, v, b) ==
    \A k \in cells : Yt.data[k] = Standardised(g, T.data[k], mu, v, b)

\* C1: batch_norm chooses its formula by the mode alone. A prediction-mode
\* call returns Y = gamma * (X - moving_mean) / sqrt(moving_var + eps) + beta
\* with the moving statistics it was passed; a training-mode call returns
\* Y = gamma * (X - mean) / sqrt(var + eps) + beta with the mean and variance
\* of the current minibatch X.
C1_ModeSelectsFormula ==
    [][Forwarded =>
        /\ Y'.shape = X'.shape
        /\ \A c \in 1..NumFeatures :
              IF training'
              THEN StandardisedAt(Y', X', ChanSet(X', c), gamma.data[c],
                                  ChanMean(X', c), ChanVar(X', c), beta.data[c])
              ELSE StandardisedAt(Y', X', ChanSet(X', c), gamma.data[c],
                                  moving_mean.data[c], moving_var.data[c],
                                  beta.data[c])]_vars

\* a prediction-mode call made after training: the moving statistics are no
\* longer the initial zeros, gamma and beta have moved, and the input differs
\* from the moving mean
C1_Witness ==
    /\ calls > 1
    /\ ~training
    /\ steps > 0
    /\ \E k \in 1..Len(moving_var.data) : moving_var.data[k] # Zero
    /\ \E k \in 1..Len(Y.data) : Y.data[k].num # Zero

\* C2: the moving statistics are fixed at prediction time. Only a
\* training-mode forward call changes self.moving_mean and self.moving_var: a
\* prediction-mode call (and every other step) leaves their values as they
\* were after the last training-mode call.
C2_PredictionKeepsMoving ==
    [][~(Forwarded /\ training') =>
        /\ moving_mean' = moving_mean
        /\ moving_var' = moving_var]_vars

\* a prediction-mode call on a layer whose moving statistics a training-mode
\* call has changed, and whose context copy has happened
C2_Witness ==
    /\ calls > 1
    /\ ~training
    /\ ctx = "gpu"
    /\ \E k \in 1..Len(moving_mean.data) : moving_mean.data[k] # Zero

\* C3: every training-mode forward call stores
\*   moving_mean <- 0.9 * moving_mean + 0.1 * batch mean
\*   moving_var  <- 0.9 * moving_var  + 0.1 * batch variance
\* on the layer, and a prediction-mode call normalises with the stored values.
C3_MovingAverage ==
    [][Forwarded =>
        \A c \in 1..NumFeatures :
            IF training'
            THEN /\ Len(moving_mean'.data) = NumFeatures
                 /\ Len(moving_var'.data) = NumFeatures
                 /\ RatMul(Rat(10, 1), moving_mean'.data[c])
                      = RatAdd(RatMul(Rat(9, 1), moving_mean.data[c]),
                               ChanMean(X', c))
                 /\ RatMul(Rat(10, 1), moving_var'.data[c])
                      = RatAdd(RatMul(Rat(9, 1), moving_var.data[c]),
                               ChanVar(X', c))
            ELSE \A k \in ChanSet(X', c) :
                    /\ Y'.data[k].rad
                         = RatAdd(moving_var.data[c], [n |-> 1, d |-> 100000])
                    /\ Y'.data[k].num
                         = RatMul(gamma.data[c],
                                  RatSub(X'.data[k], moving_mean.data[c]))]_vars

\* the second training-mode call: the moving statistics hold the average of
\* two batches with different statistics
C3_Witness ==
    /\ calls = 2
    /\ training
    /\ \E k \in 1..Len(moving_mean.data) :
          /\ moving_mean.data[k] # Zero
          /\ moving_mean.data[k] # RatMul(Rat(1, 10), ChanMean(X, k))
          /\ moving_var.data[k] # Zero

\* C4: normalisation never divides by zero. The tensor under the square
\* root of every forward call is strictly positive, and moving_var stays >= 0,
\* so the next prediction-mode call divides by sqrt(moving_var + eps) > 0 too.
C4_NoDivisionByZero ==
    /\ calls > 0 => \A k \in 1..Len(Y.data) : RatLess(Zero, Y.data[k].rad)
    /\ \A k \in 1..Len(moving_var.data) : RatLeq(Zero, moving_var.data[k])

\* a training-mode call on a minibatch whose variance vanishes in a channel:
\* eps alone keeps the divisor positive
C4_Witness ==
    /\ calls > 0
    /\ training
    /\ \E k \in 1..Len(Y.data) : Y.data[k].rad = [n |-> 1, d |-> 100000]

C6_PerChannelStatistics ==
    [][(Forwarded /\ training') =>
        /\ Len(moving_mean'.data) = NumFeatures
        /\ Len(moving_var'.data) = NumFeatures
        /\ \A c \in 1..NumFeatures :
              /\ Cardinality(ChanSet(X', c))
                   = IF Len(X'.shape) = 4
                     THEN X'.shape[1] * X'.shape[3] * X'.shape[4]
                     ELSE X'.shape[1]
              /\ StandardisedAt(Y', X', ChanSet(X', c), gamma.data[c],
                                ChanMean(X', c), ChanVar(X', c), beta.data[c])]_vars

\* a training-mode call on a rank-4 minibatch of two examples and two pixels
\* whose entries differ inside one channel
C6_Witness ==
    /\ calls > 0
    /\ training
    /\ Len(X.shape) = 4
    /\ X.shape[1] > 1
    /\ X.shape[3] * X.shape[4] > 1
    /\ \E k \in 1..Len(Y.data) : Y.data[k].num # Zero

(* ========================= properties of vgg ========================== *)
\* vgg has returned its network
Built == vgg_pc \in {"built", "done", "error"}

IsVggConv(layer, num_channels) ==
    /\ layer.type = "Conv2D"
    /\ layer.channels = num_channels
    /\ layer.kernel_size = 3
    /\ layer.padding = 1
    /\ layer.strides = 1
    /\ layer.activation = "relu"

IsVggPool(layer) ==
    /\ layer.type = "MaxPool2D"
    /\ layer.pool_size = 2
    /\ layer.strides = 2

\* blk is num_convs 3x3 convolutions then one 2x2 max-pooling layer
IsVggBlock(blk, num_convs, num_channels) ==
    /\ blk.type = "Sequential"
    /\ Len(blk.children) = num_convs + 1
    /\ \A k \in 1..num_convs : IsVggConv(blk.children[k], num_channels)
    /\ IsVggPool(blk.children[num_convs + 1])

\* C7: vgg_block(num_convs, num_channels) is a sequential block of exactly
\* num_convs + 1 layers: num_convs convolutions (3x3, padding 1, ReLU,
\* num_channels outputs), then one max-pooling layer (2x2, stride 2) as the
\* last layer; with num_convs = 0 it is the pooling layer alone.
C7_BlockLayers ==
    \A i \in 1..vgg_i :
        /\ IsVggBlock(net[i], conv_arch[i][1], conv_arch[i][2])
        /\ conv_arch[i][1] = 0 => Len(net[i].children) = 1

\* a block without convolutions and a block with two have been built
C7_Witness ==
    /\ \E i \in 1..vgg_i : conv_arch[i][1] = 0
    /\ \E i \in 1..vgg_i : conv_arch[i][1] = 2 /\ Len(net[i].children) = 3

\* C8: the children of vgg(conv_arch) are one vgg_block per pair of
\* conv_arch, in the order of the pairs, then Dense(4096, relu), Dropout(0.5),
\* Dense(4096, relu), Dropout(0.5), Dense(10): len(conv_arch) + 5 children.
C8_NetworkChildren ==
    Built =>
        LET n == Len(conv_arch)
        IN  /\ Len(net) = n + 5
            /\ \A i \in 1..n :
                  IsVggBlock(net[i], conv_arch[i][1], conv_arch[i][2])
            /\ net[n + 1] = [type |-> "Dense", units |-> 4096, activation |-> "relu"]
            /\ net[n + 2] = [type |-> "Dropout", rate |-> [n |-> 1, d |-> 2]]
            /\ net[n + 3] = [type |-> "Dense", units |-> 4096, activation |-> "relu"]
            /\ net[n + 4] = [type |-> "Dropout", rate |-> [n |-> 1, d |-> 2]]
            /\ net[n + 5] = [type |-> "Dense", units |-> 10, activation |-> "none"]

\* a network of two different blocks has been returned
C8_Witness ==
    /\ Built
    /\ Len(conv_arch) = 2
    /\ conv_arch[1] # conv_arch[2]
    /\ Len(net) = 7

\* the shape that child i of the network was applied to
InputOf(i) == IF i = 1 THEN X_in ELSE printed[i - 1]

\* the output shapes of the shape cell in the notebook
printed_vgg11 ==
    <<<<1, 64, 112, 112>>, <<1, 128, 56, 56>>, <<1, 256, 28, 28>>,
      <<1, 512, 14, 14>>, <<1, 512, 7, 7>>, <<1, 4096>>, <<1, 4096>>,
      <<1, 4096>>, <<1, 4096>>, <<1, 10>>>>

\* C9 (as claimed): every block applied to an input of height and width >= 2
\* gives height floor(H/2), width floor(W/2) and num_channels channels.
C9_BlockHalves_Claimed ==
    \A i \in 1..Len(printed) :
        (i <= Len(conv_arch) /\ InputOf(i)[3] >= 2 /\ InputOf(i)[4] >= 2) =>
            printed[i] = <<InputOf(i)[1], conv_arch[i][2],
                           InputOf(i)[3] \div 2, InputOf(i)[4] \div 2>>

\* C9 (amended): every block applied to an input of height and width >= 2
\* succeeds and gives height floor(H/2) and width floor(W/2); it gives
\* num_channels channels when num_convs >= 1 and the input's channels when
\* num_convs = 0. The 1x1x224x224 input through the notebook's conv_arch
\* gives 112, 56, 28, 14, 7 with 64, 128, 256, 512, 512 channels and ends
\* with shape (1, 10).
C9_BlockHalves ==
    /\ \A i \in 1..Len(printed) :
          (i <= Len(conv_arch) /\ InputOf(i)[3] >= 2 /\ InputOf(i)[4] >= 2) =>
              printed[i] = <<InputOf(i)[1],
                             IF conv_arch[i][1] >= 1 THEN conv_arch[i][2]
                             ELSE InputOf(i)[2],
                             InputOf(i)[3] \div 2, InputOf(i)[4] \div 2>>
    /\ vgg_pc = "error" =>
          /\ Len(printed) < Len(conv_arch)
          /\ X_shape[3] < 2 \/ X_shape[4] < 2
    /\ (vgg_pc = "done" /\ conv_arch = conv_arch_vgg11 /\ X_in = X_vgg11) =>
          printed = printed_vgg11

\* the shape cell of the notebook has run to its end
C9_Witness ==
    /\ vgg_pc = "done"
    /\ conv_arch = conv_arch_vgg11
    /\ X_in = X_vgg11
    /\ Len(printed) = 10

RECURSIVE CountType(_, _)
\* the number of layers of the given type among the children, those of
\* nested sequential blocks included
CountType(children, t) ==
    IF children = <<>> THEN 0
    ELSE (IF Head(children).type = "Sequential"
          THEN CountType(Head(children).children, t)
          ELSE IF Head(children).type = t THEN 1 ELSE 0)
         + CountType(Tail(children), t)

\* C10: the network built from the notebook's conv_arch has exactly 8
\* convolutional layers, in 5 blocks, and exactly 3 Dense layers: 11.
C10_VGG11 ==
    (Built /\ conv_arch = conv_arch_vgg11) =>
        /\ CountType(net, "Conv2D") = 8
        /\ CountType(net, "Dense") = 3
        /\ CountType(net, "Conv2D") + CountType(net, "Dense") = 11
        /\ Cardinality({i \in 1..Len(net) : net[i].type = "Sequential"}) = 5

\* vgg(conv_arch) of the notebook has returned
C10_Witness ==
    /\ Built
    /\ conv_arch = conv_arch_vgg11
    /\ Len(net) = 10

(* ================ properties of the calls in call order =============== *)
RECURSIVE MovingAfter(_, _)
\* the moving statistic after the batch statistics stats[1], ..., stats[n]
\* went one after the other through
\* moving = 0.9 * moving + 0.1 * stat, starting from 0
MovingAfter(stats, n) ==
    IF n = 0 THEN [n |-> 0, d |-> 1]
    ELSE RatAdd(RatMul([n |-> 9, d |-> 10], MovingAfter(stats, n - 1)),
                RatMul([n |-> 1, d |-> 10], stats[n]))

\* C15: forward calls run one at a time, and no update of the moving
\* statistics is lost: after n training-mode forward calls moving_mean and
\* moving_var are the n-fold application of the moving-average update to
\* the n batch means and batch variances, in call order.
C15_NoLostUpdate ==
    /\ Len(batch_stats) = steps + (IF pc = "backward" THEN 1 ELSE 0)
    /\ Len(moving_mean.data) = NumFeatures
    /\ Len(moving_var.data) = NumFeatures
    /\ \A c \in 1..NumFeatures :
          /\ moving_mean.data[c]
               = MovingAfter([i \in 1..Len(batch_stats) |-> batch_stats[i].mean[c]],
                             Len(batch_stats))
          /\ moving_var.data[c]
               = MovingAfter([i \in 1..Len(batch_stats) |-> batch_stats[i].var[c]],
                             Len(batch_stats))

\* two training-mode calls with different statistics, the first with a
\* nonzero batch variance
C15_Witness ==
    /\ Len(batch_stats) = 2
    /\ batch_stats[1] # batch_stats[2]
    /\ \E c \in 1..NumFeatures : batch_stats[1].var[c] # Zero
    /\ \E c \in 1..NumFeatures : batch_stats[2].mean[c] # Zero
    /\ moving_mean # moving_var

(* ================ properties of a direct batch_norm call ============== *)
\* C14 (as claimed): for no input and in neither mode does batch_norm raise
\* an error of its own.
C14_NoOwnError_Claimed == raised # "AssertionError"

\* C14: batch_norm has one check of its own, the assert on the rank of X in
\* the training branch: a training-mode call with X of a rank other than 2
\* or 4 raises AssertionError. A prediction-mode call, and a training-mode
\* call with X of rank 2 or 4, raises no error of its own: it returns, or a
\* framework operation raises.
C14_AssertOnly ==
    /\ raised \in {"none", "AssertionError", "MXNetError"}
    /\ (pc = "call" \/ pc = "returned") <=> raised = "none"
    /\ (~training \/ Len(X.shape) \in {2, 4}) => raised # "AssertionError"
    /\ (pc # "call" /\ training /\ Len(X.shape) \notin {2, 4}) =>
          raised = "AssertionError"
    /\ pc = "returned" =>
          /\ Len(Y.shape) >= Len(X.shape)
          /\ \A j \in 1..Len(X.shape) :
                X.shape[Len(X.shape) + 1 - j] \in {1, Y.shape[Len(Y.shape) + 1 - j]}

\* a training-mode call on a rank-3 argument has raised
C14_Witness ==
    /\ pc = "raised"
    /\ training
    /\ Len(X.shape) = 3
    /\ raised = "AssertionError"

(* ========================= properties of NiN ========================== *)
\* a convolution layer with exactly these settings and ReLU activation
IsConv(layer, channels, kernel_size, strides, padding) ==
    /\ layer.type = "Conv2D"
    /\ layer.channels = channels
    /\ layer.kernel_size = kernel_size
    /\ layer.strides = strides
    /\ layer.padding = padding
    /\ layer.activation = "relu"

\* a sequential block of three convolutions: the first with the given
\* settings, then two 1x1 convolutions of stride 1 without padding
IsNinBlock(blk, a) ==
    /\ blk.type = "Sequential"
    /\ Len(blk.children) = 3
    /\ IsConv(blk.children[1], a[1], a[2], a[3], a[4])
    /\ IsConv(blk.children[2], a[1], 1, 1, 0)
    /\ IsConv(blk.children[3], a[1], 1, 1, 0)

\* one nin_block call was made and has returned
NinCalled == nin_args # <<>> /\ nin_pc \in {"called", "done", "error"}
\* the model cell has run
NinBuilt == nin_args = <<>> /\ nin_pc \in {"built", "done", "error"}

\* C11: for every num_channels, kernel_size, strides and padding, nin_block
\* returns a sequential block of exactly three convolution layers: one with
\* the given kernel_size, strides and padding, then two with kernel size 1,
\* stride 1 and no padding; all three have num_channels outputs and ReLU.
C11_NinBlockLayers == NinCalled => IsNinBlock(nin_blk, nin_args)

\* a call with arguments that are none of the notebook's
C11_Witness ==
    /\ nin_pc = "called"
    /\ nin_args = <<2, 3, 2, 1>>
    /\ Len(nin_blk.children) = 3

\* C12: the NiN network has no Dense layer at any depth; it ends with a
\* nin_block of 10 output channels, a global average pooling layer and a
\* flatten layer; whenever the shape cell runs to its end on a batch of b
\* examples, the final output has shape (b, 10).
C12_NoDenseLogits ==
    NinBuilt =>
        /\ CountType(nin_net, "Dense") = 0
        /\ Len(nin_net) >= 3
        /\ LET first == nin_net[Len(nin_net) - 2].children[1]
           IN  IsNinBlock(nin_net[Len(nin_net) - 2],
                          <<10, first.kernel_size, first.strides, first.padding>>)
        /\ nin_net[Len(nin_net) - 1].type = "GlobalAvgPool2D"
        /\ nin_net[Len(nin_net)].type = "Flatten"
        /\ nin_pc = "done" => nin_X = <<nin_X_in[1], 10>>

\* the shape cell has run to its end on a batch of two examples
C12_Witness ==
    /\ NinBuilt
    /\ nin_pc = "done"
    /\ nin_X_in[1] = 2
    /\ Len(nin_printed) = Len(nin_net)

\* the shape that child i of the NiN network was applied to
NinInputOf(i) == IF i = 1 THEN nin_X_in ELSE nin_printed[i - 1]

\* floor((size + 2 * padding - kernel) / strides) + 1
FloorWindow(size, kernel, strides, padding) ==
    ((size + 2 * padding - kernel) \div strides) + 1

\* the output shapes of the shape cell in the notebook
printed_nin ==
    <<<<1, 96, 54, 54>>, <<1, 96, 26, 26>>, <<1, 256, 26, 26>>,
      <<1, 256, 12, 12>>, <<1, 384, 12, 12>>, <<1, 384, 5, 5>>,
      <<1, 384, 5, 5>>, <<1, 10, 5, 5>>, <<1, 10, 1, 1>>, <<1, 10>>>>

\* the output shape of a windowed layer by the floor formula
WindowedShape(in, channels, kernel, strides, padding) ==
    <<in[1], channels,
      FloorWindow(in[3], kernel, strides, padding),
      FloorWindow(in[4], kernel, strides, padding)>>

\* C13: every output height and width is floor((H + 2*padding - kernel) /
\* stride) + 1 of the layer's window (for a nin_block: of its first
\* convolution alone, the two 1x1 convolutions changing nothing); for a
\* 1x1x224x224 input the shape cell prints the shapes recorded in the
\* notebook.
C13_NinShapes ==
    /\ (NinCalled /\ nin_pc = "done") =>
          nin_printed = <<WindowedShape(nin_X_in, nin_args[1], nin_args[2],
                                        nin_args[3], nin_args[4])>>
    /\ NinBuilt =>
          \A i \in 1..Len(nin_printed) :
             LET layer == nin_net[i]
                 in == NinInputOf(i)
                 out == nin_printed[i]
             IN  CASE layer.type = "Sequential" ->
                        out = WindowedShape(in, layer.children[1].channels,
                                            layer.children[1].kernel_size,
                                            layer.children[1].strides,
                                            layer.children[1].padding)
                   [] layer.type = "MaxPool2D" ->
                        out = WindowedShape(in, in[2], layer.pool_size,
                                            layer.strides, 0)
                   [] layer.type = "GlobalAvgPool2D" ->
                        out = <<in[1], in[2], 1, 1>>
                   [] layer.type = "Dropout" -> out = in
                   [] layer.type = "Flatten" ->
                        out = <<in[1], in[2] * in[3] * in[4]>>
                   [] OTHER -> FALSE
    /\ (NinBuilt /\ nin_pc = "done" /\ nin_X_in = <<1, 1, 224, 224>>) =>
          nin_printed = printed_nin

\* the shape cell of the notebook has run to its end
C13_Witness ==
    /\ NinBuilt
    /\ nin_pc = "done"
    /\ nin_X_in = <<1, 1, 224, 224>>
    /\ Len(nin_printed) = 10
====
